---------------------------- MODULE Spec2Model ----------------------------
(***************************************************************************)
(* A model of haystack's evaluation harness (haystack/evaluation/eval.py): *)
(* the eval entry point, the EvaluationResult object and its               *)
(* calculate_metrics dispatch with the EM, F1, SAS and stub metrics; and   *)
(* of the DocxToDocument converter (haystack/components/converters/        *)
(* docx.py): its run method and the extraction of the core properties.     *)
(*                                                                         *)
(* Conventions.                                                            *)
(*  - A Python str is a sequence of one-character strings, so that         *)
(*    split(), lower() and the character filters are computed, not         *)
(*    assumed.  The alphabet is Alphabet below.                            *)
(*  - A Python float is an exact rational <<num, den>>, den > 0, in        *)
(*    lowest terms.  Rounding of IEEE doubles is not modelled.             *)
(*  - A raised exception is the name of its class; NoError is "none".      *)
(*  - None is the string "None".                                           *)
(***************************************************************************)
EXTENDS Integers, Sequences, FiniteSets, TLC

VARIABLES
    pc,                 \* eval: "idle" | "loop" | "returned" | "raised"
    runnable,           \* eval's runnable argument: "Pipeline" | "Component"
    inputs,             \* eval's inputs argument
    expected_outputs,   \* eval's expected_outputs argument
    outputs,            \* eval's local list outputs
    run_log,            \* every runnable.run invocation so far: <<input, outcome>>
    eval_raised,        \* the exception eval's caller sees, or NoError
    er,                 \* the EvaluationResult object, or NoResult
    er_init,            \* er as __init__ left it (history)
    er_origin,          \* "none" | "eval" | "direct"
    metrics_import_ok,  \* whether the LazyImport block of line 14 imported
    allocated,          \* number of MetricsResult objects created so far
    returned,           \* ids of the MetricsResult objects already returned
    last,               \* the last calculate_metrics call, or NoCall
    run_pc,             \* DocxToDocument.run: "idle" | "loop" | "returned" | "raised"
    sources,            \* run's sources argument
    meta,               \* run's meta argument
    meta_list,          \* run's local meta_list
    documents,          \* run's local list documents
    position,           \* number of (source, metadata) pairs the loop has taken
    warnings,           \* the logger.warning records of the call
    converted,          \* index in sources of each element of documents (history)
    run_raised          \* the exception run's caller sees, or NoError

docx_vars == <<run_pc, sources, meta, meta_list, documents, position, warnings,
               converted, run_raised>>

vars == <<pc, runnable, inputs, expected_outputs, outputs, run_log, eval_raised,
          er, er_init, er_origin, metrics_import_ok, allocated, returned, last,
          docx_vars>>

eval_vars == <<pc, runnable, inputs, expected_outputs, outputs, run_log, eval_raised>>

(***************************************************************************)
(* Bounds of the model.                                                    *)
(***************************************************************************)
\* longest inputs / outputs / expected_outputs list
MaxSamples == 3
\* most calculate_metrics calls on one EvaluationResult
MaxCalls == 2
\* longest prediction / label list of the lexical-metric specification
MaxLexSamples == 2

NoError == "none"
None == "None"
NoResult == [absent |-> TRUE]
NoCall == [absent |-> TRUE]

(***************************************************************************)
(* Sequences and exact rationals.                                          *)
(***************************************************************************)
Range(s) == {s[i] : i \in DOMAIN s}

SeqsUpTo(S, n) == UNION {[1..k -> S] : k \in 0..n}

Min(a, b) == IF a <= b THEN a ELSE b

Abs(n) == IF n < 0 THEN -n ELSE n

RECURSIVE GCD(_, _)
GCD(a, b) == IF b = 0 THEN a ELSE GCD(b, a % b)

\* the rational n/d (d # 0) in lowest terms with a positive denominator
Rat(n, d) ==
    LET g == GCD(Abs(n), Abs(d))
        s == IF d < 0 THEN -1 ELSE 1
    IN  <<(s * n) \div g, (s * d) \div g>>

RInt(n) == <<n, 1>>
RAdd(p, q) == Rat(p[1] * q[2] + q[1] * p[2], p[2] * q[2])
RMul(p, q) == Rat(p[1] * q[1], p[2] * q[2])
RDiv(p, q) == Rat(p[1] * q[2], p[2] * q[1])
RLeq(p, q) == p[1] * q[2] <= q[1] * p[2]

RECURSIVE RSum(_)
RSum(s) == IF s = <<>> THEN RInt(0) ELSE RAdd(Head(s), RSum(Tail(s)))

(***************************************************************************)
(* Text: the Text Normalizer (preprocess_text of eval_utils) and str.split.*)
(***************************************************************************)
UpperCase == {"A", "B", "P", "R"}
LowerCase == {"a", "b", "c", "d", "e", "h", "i", "m", "n", "o", "p", "r", "s", "t", "v"}
Punctuation == {".", ",", "!", "?"}
Digits == {"0", "1", "7"}
Whitespace == {" "}
Alphabet == UpperCase \cup LowerCase \cup Punctuation \cup Digits \cup Whitespace

\* str.lower on one character
LowerChar(c) ==
    CASE c = "A" -> "a"
      [] c = "B" -> "b"
      [] c = "P" -> "p"
      [] c = "R" -> "r"
      [] OTHER -> c

\* the characters of text that are not in drop, in order
RECURSIVE StripChars(_, _)
StripChars(text, drop) ==
    IF text = <<>> THEN <<>>
    ELSE IF Head(text) \in drop THEN StripChars(Tail(text), drop)
         ELSE <<Head(text)>> \o StripChars(Tail(text), drop)

\* removes every match of each pattern, in list order; a pattern is a
\* one-character literal regex
RECURSIVE RemoveRegexes(_, _)
RemoveRegexes(text, regexes) ==
    IF regexes = <<>> THEN text
    ELSE RemoveRegexes(StripChars(text, {Head(regexes)}), Tail(regexes))

\* regexes_to_ignore = None (the default): no pattern
NoRegexes == <<>>

\* step 1: regex removal, when patterns are given
StepRegexes(text, regexes_to_ignore) ==
    IF regexes_to_ignore # NoRegexes THEN RemoveRegexes(text, regexes_to_ignore) ELSE text

\* step 2: str.lower
StepCase(text, ignore_case) ==
    IF ignore_case THEN [i \in DOMAIN text |-> LowerChar(text[i])] ELSE text

\* step 3: punctuation removal
StepPunctuation(text, ignore_punctuation) ==
    IF ignore_punctuation THEN StripChars(text, Punctuation) ELSE text

\* step 4: digit removal
StepNumbers(text, ignore_numbers) ==
    IF ignore_numbers THEN StripChars(text, Digits) ELSE text

\* one string through the four steps, in their fixed order
preprocess_one(text, regexes_to_ignore, ignore_case, ignore_punctuation, ignore_numbers) ==
    StepNumbers(
        StepPunctuation(
            StepCase(StepRegexes(text, regexes_to_ignore), ignore_case),
            ignore_punctuation),
        ignore_numbers)

preprocess_text(texts, regexes_to_ignore, ignore_case, ignore_punctuation, ignore_numbers) ==
    [i \in DOMAIN texts |->
        preprocess_one(texts[i], regexes_to_ignore, ignore_case,
                       ignore_punctuation, ignore_numbers)]

\* str.split(): the maximal runs of non-whitespace characters, in order.
\* cur is the token being read.
RECURSIVE SplitFrom(_, _)
SplitFrom(text, cur) ==
    IF text = <<>> THEN (IF cur = <<>> THEN <<>> ELSE <<cur>>)
    ELSE IF Head(text) \in Whitespace
         THEN (IF cur = <<>> THEN <<>> ELSE <<cur>>) \o SplitFrom(Tail(text), <<>>)
         ELSE SplitFrom(Tail(text), Append(cur, Head(text)))

split(text) == SplitFrom(text, <<>>)

(***************************************************************************)
(* collections.Counter, as a function from the elements to their counts.   *)
(***************************************************************************)
Counter(toks) ==
    [t \in Range(toks) |-> Cardinality({i \in DOMAIN toks : toks[i] = t})]

\* Counter & Counter: the minimum of the two counts, zero counts dropped
CounterAnd(c1, c2) ==
    [t \in {u \in DOMAIN c1 \cap DOMAIN c2 : Min(c1[u], c2[u]) > 0} |->
        Min(c1[t], c2[t])]

RECURSIVE SumOver(_, _)
SumOver(c, keys) ==
    IF keys = {} THEN 0
    ELSE LET k == CHOOSE u \in keys : TRUE
         IN  c[k] + SumOver(c, keys \ {k})

\* sum(counter.values())
SumValues(c) == SumOver(c, DOMAIN c)

\* np.mean of a non-empty list of numbers
mean(scores) == RDiv(RSum(scores), RInt(Len(scores)))

(***************************************************************************)
(* EvaluationResult._compute_f1_single                                     *)
(***************************************************************************)
\* lines 93-96, from num_same and the two token counts
F1OfCounts(num_same, n_pred, n_label) ==
    RDiv(RMul(RMul(RInt(2), Rat(num_same, n_pred)), Rat(num_same, n_label)),
         RAdd(Rat(num_same, n_pred), Rat(num_same, n_label)))

\* lines 88-96, num_same being known
F1OfSame(num_same, label_toks, pred_toks) ==
    IF Len(label_toks) = 0 \/ Len(pred_toks) = 0
    THEN RInt(IF label_toks = pred_toks THEN 1 ELSE 0)
    ELSE IF num_same = 0 THEN RInt(0)
    ELSE F1OfCounts(num_same, Len(pred_toks), Len(label_toks))

\* _compute_f1_single counting the distinct common tokens: set(label_toks) &
\* set(pred_toks) in place of the Counter intersection
_compute_f1_single_set(label_toks, pred_toks) ==
    F1OfSame(Cardinality(Range(label_toks) \cap Range(pred_toks)), label_toks, pred_toks)

_compute_f1_single(label_toks, pred_toks) ==
    F1OfSame(SumValues(CounterAnd(Counter(label_toks), Counter(pred_toks))),
             label_toks, pred_toks)

(***************************************************************************)
(* The Output Extractor (get_answers_from_output of eval_utils).           *)
(* A component's per-sample output is a mapping key -> answer; a           *)
(* pipeline's is a mapping component name -> such a mapping.               *)
(***************************************************************************)
Extracted(raised, answers) == [raised |-> raised, answers |-> answers]

\* the one component output, among holders, that has the key
ExtractHeld(sample, output_key, holders) ==
    IF holders = {} THEN Extracted("MissingKeyError", <<>>)
    ELSE IF Cardinality(holders) > 1 THEN Extracted("AmbiguousKeyError", <<>>)
    ELSE Extracted(NoError, <<sample[CHOOSE c \in holders : TRUE][output_key]>>)

ExtractSample(sample, output_key, runnable_type) ==
    IF runnable_type = "pipeline"
    THEN ExtractHeld(sample, output_key,
                     {c \in DOMAIN sample : output_key \in DOMAIN sample[c]})
    ELSE IF output_key \in DOMAIN sample
         THEN Extracted(NoError, <<sample[output_key]>>)
         ELSE Extracted("MissingKeyError", <<>>)

\* the first sample's extraction followed by the rest's
ExtractJoin(first, rest) ==
    IF first.raised # NoError THEN first
    ELSE IF rest.raised # NoError THEN rest
    ELSE Extracted(NoError, first.answers \o rest.answers)

\* one answer per sample, in sample order; the first sample that lacks the
\* key fails the whole extraction
RECURSIVE get_answers_from_output(_, _, _)
get_answers_from_output(outs, output_key, runnable_type) ==
    IF outs = <<>> THEN Extracted(NoError, <<>>)
    ELSE ExtractJoin(ExtractSample(Head(outs), output_key, runnable_type),
                     get_answers_from_output(Tail(outs), output_key, runnable_type))

(***************************************************************************)
(* Calling a method with **kwargs.  kwargs is a function from option names *)
(* to values; Python raises TypeError for a keyword the signature does not *)
(* declare and for a required parameter that is not passed.                *)
(***************************************************************************)
LexParams == {"output_key", "regexes_to_ignore", "ignore_case",
              "ignore_punctuation", "ignore_numbers"}
SasParams == LexParams \cup {"model", "batch_size", "device", "token"}

BindFails(params, required, kwargs) ==
    ~ (DOMAIN kwargs \subseteq params /\ required \subseteq DOMAIN kwargs)

Arg(kwargs, name, default) == IF name \in DOMAIN kwargs THEN kwargs[name] ELSE default

(***************************************************************************)
(* What one metric call did: the steps it performed, in order, the         *)
(* exception it raised (or NoError), the contents of the MetricsResult it  *)
(* built (or NoValue), and the lengths of the extracted prediction and     *)
(* label lists (-1: not extracted).                                        *)
(***************************************************************************)
NoValue == [absent |-> TRUE]

Outcome(steps, raised, value, n_pred, n_label) ==
    [steps |-> steps, raised |-> raised, value |-> value,
     n_pred |-> n_pred, n_label |-> n_label]

\* LengthTests without the test of lines 128-129: the lists go on to zip,
\* which stops at the shorter one
LengthTests_truncate(p, l, steps, zero_value) ==
    IF p.raised # NoError
    THEN [done |-> TRUE,
          out |-> Outcome(Append(steps, "extract_predictions"), p.raised, NoValue, -1, -1)]
    ELSE IF l.raised # NoError
    THEN [done |-> TRUE,
          out |-> Outcome(steps \o <<"extract_predictions", "extract_labels">>,
                          l.raised, NoValue, Len(p.answers), -1)]
    ELSE IF Min(Len(p.answers), Len(l.answers)) = 0
    THEN [done |-> TRUE,
          out |-> Outcome(steps \o <<"extract_predictions", "extract_labels">>,
                          NoError, zero_value, Len(p.answers), Len(l.answers))]
    ELSE [done |-> FALSE,
          steps |-> steps \o <<"extract_predictions", "extract_labels">>,
          predictions |-> SubSeq(p.answers, 1, Min(Len(p.answers), Len(l.answers))),
          labels |-> SubSeq(l.answers, 1, Min(Len(p.answers), Len(l.answers)))]

\* the two length tests on the extracted lists p and l; done is FALSE when
\* the metric goes on to normalise and score
LengthTests(p, l, steps, zero_value) ==
    IF p.raised # NoError
    THEN [done |-> TRUE,
          out |-> Outcome(Append(steps, "extract_predictions"), p.raised, NoValue, -1, -1)]
    ELSE IF l.raised # NoError
    THEN [done |-> TRUE,
          out |-> Outcome(steps \o <<"extract_predictions", "extract_labels">>,
                          l.raised, NoValue, Len(p.answers), -1)]
    ELSE IF Len(p.answers) # Len(l.answers)
    THEN [done |-> TRUE,
          out |-> Outcome(steps \o <<"extract_predictions", "extract_labels">>,
                          "ValueError", NoValue, Len(p.answers), Len(l.answers))]
    ELSE IF Len(p.answers) = 0
    THEN [done |-> TRUE,
          out |-> Outcome(steps \o <<"extract_predictions", "extract_labels">>,
                          NoError, zero_value, 0, 0)]
    ELSE [done |-> FALSE,
          steps |-> steps \o <<"extract_predictions", "extract_labels">>,
          predictions |-> p.answers, labels |-> l.answers]

\* the two get_answers_from_output calls and the two length tests that open
\* _calculate_f1, _calculate_em and _calculate_sas
Opening(self, output_key, steps, zero_value) ==
    LengthTests(get_answers_from_output(self.outputs, output_key, self.runnable_type),
                get_answers_from_output(self.expected_outputs, output_key,
                                        self.runnable_type),
                steps, zero_value)

Normalize(texts, kwargs) ==
    preprocess_text(texts,
                    Arg(kwargs, "regexes_to_ignore", NoRegexes),
                    Arg(kwargs, "ignore_case", FALSE),
                    Arg(kwargs, "ignore_punctuation", FALSE),
                    Arg(kwargs, "ignore_numbers", FALSE))

LexSteps == <<"normalize_predictions", "normalize_labels", "score">>

(***************************************************************************)
(* The three stubs.  They declare no parameter but self.                   *)
(***************************************************************************)
_calculate_recall(self, kwargs) ==
    IF BindFails({}, {}, kwargs) THEN Outcome(<<>>, "TypeError", NoValue, -1, -1)
    ELSE Outcome(<<>>, NoError, [recall |-> None], -1, -1)

_calculate_map(self, kwargs) ==
    IF BindFails({}, {}, kwargs) THEN Outcome(<<>>, "TypeError", NoValue, -1, -1)
    ELSE Outcome(<<>>, NoError, [mean_average_precision |-> None], -1, -1)

_calculate_mrr(self, kwargs) ==
    IF BindFails({}, {}, kwargs) THEN Outcome(<<>>, "TypeError", NoValue, -1, -1)
    ELSE Outcome(<<>>, NoError, [mean_reciprocal_rank |-> None], -1, -1)

(***************************************************************************)
(* EvaluationResult._calculate_f1 and _calculate_em                        *)
(***************************************************************************)
\* lines 138-146 on the normalised lists
F1Mean(predictions, labels) ==
    mean([i \in DOMAIN labels |->
            _compute_f1_single(split(labels[i]), split(predictions[i]))])

\* lines 134-148, after the opening o
F1Rest(o, kwargs) ==
    IF o.done THEN o.out
    ELSE Outcome(o.steps \o LexSteps, NoError,
                 [f1 |-> F1Mean(Normalize(o.predictions, kwargs),
                                Normalize(o.labels, kwargs))],
                 Len(o.predictions), Len(o.labels))

_calculate_f1(self, kwargs) ==
    IF BindFails(LexParams, {"output_key"}, kwargs)
    THEN Outcome(<<>>, "TypeError", NoValue, -1, -1)
    ELSE F1Rest(Opening(self, kwargs["output_key"], <<>>, [f1 |-> RInt(0)]), kwargs)

\* lines 190-191 on the normalised lists
EMMean(predictions, labels) ==
    mean([i \in DOMAIN predictions |->
            RInt(IF predictions[i] = labels[i] THEN 1 ELSE 0)])

\* EMRest without line 188: the labels are compared as extracted
EMRest_raw_labels(o, kwargs) ==
    IF o.done THEN o.out
    ELSE Outcome(o.steps \o LexSteps, NoError,
                 [exact_match |-> EMMean(Normalize(o.predictions, kwargs), o.labels)],
                 Len(o.predictions), Len(o.labels))

\* lines 187-193, after the opening o
EMRest(o, kwargs) ==
    IF o.done THEN o.out
    ELSE Outcome(o.steps \o LexSteps, NoError,
                 [exact_match |-> EMMean(Normalize(o.predictions, kwargs),
                                         Normalize(o.labels, kwargs))],
                 Len(o.predictions), Len(o.labels))

_calculate_em(self, kwargs) ==
    IF BindFails(LexParams, {"output_key"}, kwargs)
    THEN Outcome(<<>>, "TypeError", NoValue, -1, -1)
    ELSE EMRest(Opening(self, kwargs["output_key"], <<>>, [exact_match |-> RInt(0)]),
                kwargs)

(***************************************************************************)
(* EvaluationResult._calculate_sas.  The external model is the parameter   *)
(* env: whether loading the configuration or the model fails, the          *)
(* architectures the configuration declares, the raw scores the            *)
(* cross-encoder predicts for the pairs and the cosine-similarity matrix   *)
(* of the bi-encoder's embeddings.  A SAS score is [raw, expit]: the       *)
(* float raw, or expit(raw).                                               *)
(***************************************************************************)
Plain(q) == [raw |-> q, expit |-> FALSE]
Expit(x) == [raw |-> x.raw, expit |-> TRUE]

\* arch.endswith("ForSequenceClassification"); an architecture name is
\* <<stem, suffix>>
IsSequenceClassification(arch) == arch[2] = "ForSequenceClassification"

\* np.mean of a non-empty list of SAS scores
sas_mean(similarity_scores) ==
    IF \E i \in DOMAIN similarity_scores : similarity_scores[i].expit
    THEN [mean_of |-> similarity_scores]
    ELSE Plain(mean([i \in DOMAIN similarity_scores |-> similarity_scores[i].raw]))

\* NormalizeScores squashing only the scores that exceed 1
NormalizeScores_each(raw) ==
    [i \in DOMAIN raw |->
        IF ~ RLeq(raw[i].raw, RInt(1)) THEN Expit(raw[i]) ELSE raw[i]]

\* lines 273-274: expit over the whole array when any score exceeds 1
NormalizeScores(raw) ==
    IF \E i \in DOMAIN raw : ~ RLeq(raw[i].raw, RInt(1))
    THEN [i \in DOMAIN raw |-> Expit(raw[i])]
    ELSE raw

\* lines 292-294
SasResult(steps, similarity_scores, n) ==
    Outcome(steps, NoError,
            [sas |-> sas_mean(similarity_scores), scores |-> similarity_scores], n, n)

SasConfigSteps == <<"normalize_predictions", "normalize_labels", "load_config">>

\* lines 250-294 on n normalised pairs.  The scores of the external model do
\* not depend on the texts in this model: env gives them.
SasScore(steps, n, env) ==
    IF env.fail = "config" THEN Outcome(steps \o SasConfigSteps, "OSError", NoValue, n, n)
    ELSE IF env.fail = "model"
    THEN Outcome(steps \o SasConfigSteps \o <<"load_model">>, "OSError", NoValue, n, n)
    ELSE IF \E i \in DOMAIN env.architectures :
              IsSequenceClassification(env.architectures[i])
    THEN SasResult(steps \o SasConfigSteps \o <<"load_model", "predict">>,
                   NormalizeScores([i \in 1..n |-> Plain(env.predict[i])]), n)
    ELSE SasResult(steps \o SasConfigSteps \o <<"load_model", "encode", "encode", "cos_sim">>,
                   [i \in 1..n |-> Plain(env.cos_sim[i][i])], n)

\* lines 247-294, after the opening o
SasRest(o, env) ==
    IF o.done THEN o.out ELSE SasScore(o.steps, Len(o.predictions), env)

\* _calculate_sas returning an empty per-sample list for no samples
_calculate_sas_no_scores(self, kwargs, env, import_ok) ==
    IF BindFails(SasParams, {"output_key"}, kwargs)
    THEN Outcome(<<>>, "TypeError", NoValue, -1, -1)
    ELSE IF ~ import_ok
    THEN Outcome(<<"import_check">>, "ImportError", NoValue, -1, -1)
    ELSE SasRest(Opening(self, kwargs["output_key"], <<"import_check">>,
                         [sas |-> Plain(RInt(0)), scores |-> <<>>]),
                 env)

_calculate_sas(self, kwargs, env, import_ok) ==
    IF BindFails(SasParams, {"output_key"}, kwargs)
    THEN Outcome(<<>>, "TypeError", NoValue, -1, -1)
    ELSE IF ~ import_ok
    THEN Outcome(<<"import_check">>, "ImportError", NoValue, -1, -1)
    ELSE SasRest(Opening(self, kwargs["output_key"], <<"import_check">>,
                         [sas |-> Plain(RInt(0)), scores |-> <<Plain(RInt(0))>>]),
                 env)

(***************************************************************************)
(* EvaluationResult.__init__ and calculate_metrics                         *)
(***************************************************************************)
Metric == {"RECALL", "MRR", "MAP", "F1", "EM", "SAS"}

__init__(r, ins, outs, exp) ==
    [runnable_type |-> IF r = "Pipeline" THEN "pipeline" ELSE "component",
     inputs |-> ins, outputs |-> outs, expected_outputs |-> exp]

\* self._supported_metrics[metric](**kwargs)
_supported_metrics(self, metric, kwargs, env, import_ok) ==
    CASE metric = "RECALL" -> _calculate_recall(self, kwargs)
      [] metric = "MRR" -> _calculate_mrr(self, kwargs)
      [] metric = "MAP" -> _calculate_map(self, kwargs)
      [] metric = "F1" -> _calculate_f1(self, kwargs)
      [] metric = "EM" -> _calculate_em(self, kwargs)
      [] metric = "SAS" -> _calculate_sas(self, kwargs, env, import_ok)

\* Caller-supplied metric callables, invoked as metric(self, **kwargs).  What
\* such a callable does is the caller's code; three of them are modelled:
\*   count_samples  returns MetricsResult({"n_samples": len(self.outputs)})
\*   drop_outputs   runs self.outputs = [] and returns a new MetricsResult
\*   cached_result  returns one module-level MetricsResult, the same object
\*                  on every call
CustomMetrics == {"count_samples", "drop_outputs", "cached_result"}

\* calculate_metrics keeping one MetricsResult object that every call fills
\* in and returns
calculate_metrics_memo(self, metric, kwargs, env, import_ok) ==
    IF metric \in Metric
    THEN [self |-> self,
          out |-> _supported_metrics(self, metric, kwargs, env, import_ok),
          object |-> "shared"]
    ELSE [self |-> self,
          out |-> Outcome(<<"custom">>, NoError, [cached |-> TRUE], -1, -1),
          object |-> "shared"]

\* [self: the object after the call, out: the Outcome, object: "new" when the
\* returned MetricsResult was created by this call, "shared" otherwise]
calculate_metrics(self, metric, kwargs, env, import_ok) ==
    IF metric \in Metric
    THEN [self |-> self,
          out |-> _supported_metrics(self, metric, kwargs, env, import_ok),
          object |-> "new"]
    ELSE CASE metric = "count_samples" ->
                [self |-> self,
                 out |-> Outcome(<<"custom">>, NoError,
                                 [n_samples |-> Len(self.outputs)], -1, -1),
                 object |-> "new"]
           [] metric = "drop_outputs" ->
                [self |-> [self EXCEPT !.outputs = <<>>],
                 out |-> Outcome(<<"custom">>, NoError, [n_samples |-> 0], -1, -1),
                 object |-> "new"]
           [] metric = "cached_result" ->
                [self |-> self,
                 out |-> Outcome(<<"custom">>, NoError, [cached |-> TRUE], -1, -1),
                 object |-> "shared"]

(***************************************************************************)
(* Input sets.                                                             *)
(***************************************************************************)
InputIds == {"q1", "q2"}

T_a == <<"a">>
T_b == <<"b">>
Answers == {T_a, T_b}

\* what runnable.run returns for one input, and what a caller lists as one
\* expected output, by the kind of runnable
SampleOutputs(r) ==
    IF r = "Pipeline" THEN {[reader |-> [answers |-> a]] : a \in Answers}
    ELSE {[answers |-> a] : a \in Answers}

Runnables == {"Pipeline", "Component"}

NoKwargs == <<>>
KwargsSet ==
    { NoKwargs,
      [output_key |-> "answers"],
      [output_key |-> "other"],
      [output_key |-> "answers", ignore_case |-> TRUE] }

BiEncoder == <<"Bert", "Model">>
CrossEncoder == <<"Bert", "ForSequenceClassification">>
RawScores == {Rat(1, 2), RInt(2)}
CosScores == {Rat(1, 2), RInt(1)}

\* the external model's behaviours on n prediction/label pairs: a load that
\* fails, a cross-encoder with its raw scores, a bi-encoder with its matrix
EnvOf(f, a, p, m) == [fail |-> f, architectures |-> a, predict |-> p, cos_sim |-> m]

CosMatrix(n, d) == [i \in 1..n |-> [j \in 1..n |-> IF i = j THEN d ELSE RInt(0)]]

Envs(n) ==
    {EnvOf(f, <<>>, <<>>, <<>>) : f \in {"config", "model"}}
    \cup {EnvOf("none", <<BiEncoder, CrossEncoder>>, p, <<>>) : p \in [1..n -> RawScores]}
    \cup {EnvOf("none", a, <<>>, CosMatrix(n, d)) : a \in {<<>>, <<BiEncoder>>}, d \in CosScores}

NoEnv == [fail |-> "none", architectures |-> <<>>, predict |-> <<>>, cos_sim |-> <<>>]

(***************************************************************************)
(* eval                                                                    *)
(***************************************************************************)
\* EvalCall without the shape check of lines 317-321
EvalCall_unchecked(r, ins, exp) ==
    /\ pc = "idle"
    /\ er_origin = "none"
    /\ runnable' = r
    /\ inputs' = ins
    /\ expected_outputs' = exp
    /\ outputs' = <<>>
    /\ pc' = "loop"
    /\ eval_raised' = NoError
    /\ UNCHANGED <<run_log, er, er_init, er_origin, metrics_import_ok,
                   allocated, returned, last>>
    /\ UNCHANGED docx_vars

\* EvalCall with the shape check written len(inputs) < len(expected_outputs)
EvalCall_less(r, ins, exp) ==
    /\ pc = "idle"
    /\ er_origin = "none"
    /\ runnable' = r
    /\ inputs' = ins
    /\ expected_outputs' = exp
    /\ outputs' = <<>>
    /\ IF Len(ins) < Len(exp)
       THEN pc' = "raised" /\ eval_raised' = "ValueError"
       ELSE pc' = "loop" /\ eval_raised' = NoError
    /\ UNCHANGED <<run_log, er, er_init, er_origin, metrics_import_ok,
                   allocated, returned, last>>
    /\ UNCHANGED docx_vars

\* lines 314-321: the call, up to the shape check
EvalCall(r, ins, exp) ==
    /\ pc = "idle"
    /\ er_origin = "none"
    /\ runnable' = r
    /\ inputs' = ins
    /\ expected_outputs' = exp
    /\ outputs' = <<>>
    /\ IF Len(ins) # Len(exp)
       THEN pc' = "raised" /\ eval_raised' = "ValueError"
       ELSE pc' = "loop" /\ eval_raised' = NoError
    /\ UNCHANGED <<run_log, er, er_init, er_origin, metrics_import_ok,
                   allocated, returned, last>>
    /\ UNCHANGED docx_vars

\* EvalRun iterating reversed(inputs)
EvalRun_reversed(ok, output) ==
    /\ pc = "loop"
    /\ Len(outputs) < Len(inputs)
    /\ LET input_ == inputs[Len(inputs) - Len(outputs)]
       IN  IF ok
           THEN /\ outputs' = Append(outputs, output)
                /\ run_log' = Append(run_log, [input |-> input_, ok |-> TRUE,
                                               output |-> output])
                /\ UNCHANGED <<pc, eval_raised>>
           ELSE /\ run_log' = Append(run_log, [input |-> input_, ok |-> FALSE,
                                               output |-> NoValue])
                /\ pc' = "raised"
                /\ eval_raised' = "RunError"
                /\ UNCHANGED outputs
    /\ UNCHANGED <<runnable, inputs, expected_outputs, er, er_init, er_origin,
                   metrics_import_ok, allocated, returned, last>>
    /\ UNCHANGED docx_vars

\* EvalRun with the run call wrapped in try/except: a failed run is recorded
\* as an empty output and the loop goes on
EvalRun_swallow(ok, output) ==
    /\ pc = "loop"
    /\ Len(outputs) < Len(inputs)
    /\ LET input_ == inputs[Len(outputs) + 1]
       IN  IF ok
           THEN /\ outputs' = Append(outputs, output)
                /\ run_log' = Append(run_log, [input |-> input_, ok |-> TRUE,
                                               output |-> output])
           ELSE /\ outputs' = Append(outputs, NoValue)
                /\ run_log' = Append(run_log, [input |-> input_, ok |-> FALSE,
                                               output |-> NoValue])
    /\ UNCHANGED <<pc, eval_raised, runnable, inputs, expected_outputs, er, er_init,
                   er_origin, metrics_import_ok, allocated, returned, last>>
    /\ UNCHANGED docx_vars

\* lines 323-325: one iteration of the loop; run returns an output or fails
EvalRun(ok, output) ==
    /\ pc = "loop"
    /\ Len(outputs) < Len(inputs)
    /\ LET input_ == inputs[Len(outputs) + 1]
       IN  IF ok
           THEN /\ outputs' = Append(outputs, output)
                /\ run_log' = Append(run_log, [input |-> input_, ok |-> TRUE,
                                               output |-> output])
                /\ UNCHANGED <<pc, eval_raised>>
           ELSE /\ run_log' = Append(run_log, [input |-> input_, ok |-> FALSE,
                                               output |-> NoValue])
                /\ pc' = "raised"
                /\ eval_raised' = "RunError"
                /\ UNCHANGED outputs
    /\ UNCHANGED <<runnable, inputs, expected_outputs, er, er_init, er_origin,
                   metrics_import_ok, allocated, returned, last>>
    /\ UNCHANGED docx_vars

\* line 327: the loop is over
EvalReturn ==
    /\ pc = "loop"
    /\ Len(outputs) = Len(inputs)
    /\ pc' = "returned"
    /\ er' = __init__(runnable, inputs, outputs, expected_outputs)
    /\ er_init' = er'
    /\ er_origin' = "eval"
    /\ UNCHANGED <<runnable, inputs, expected_outputs, outputs, run_log, eval_raised,
                   metrics_import_ok, allocated, returned, last>>
    /\ UNCHANGED docx_vars

\* a caller constructs an EvaluationResult itself
Construct(r, ins, outs, exp) ==
    /\ pc = "idle"
    /\ er_origin = "none"
    /\ er' = __init__(r, ins, outs, exp)
    /\ er_init' = er'
    /\ er_origin' = "direct"
    /\ UNCHANGED <<eval_vars, metrics_import_ok, allocated, returned, last>>
    /\ UNCHANGED docx_vars

(***************************************************************************)
(* One calculate_metrics call on the EvaluationResult.  A MetricsResult    *)
(* object is its id: a new one gets the next id, the module-level object   *)
(* of cached_result is 0, and NoObject stands for no object returned.      *)
(***************************************************************************)
NoObject == -1

\* the id of the object a call returns
ReturnedId(c, n_allocated) ==
    IF c.out.raised # NoError THEN NoObject
    ELSE IF c.object = "new" THEN n_allocated + 1 ELSE 0

\* the effect of the call c that returns the object id; last keeps env when
\* the call got as far as consulting the external model
CallEffect(metric, kwargs, env, c, id) ==
    /\ er' = c.self
    /\ allocated' = IF id > 0 THEN allocated + 1 ELSE allocated
    /\ returned' = IF id = NoObject THEN returned ELSE returned \cup {id}
    /\ last' = [metric |-> metric, kwargs |-> kwargs,
                env |-> IF \E i \in DOMAIN c.out.steps : c.out.steps[i] = "load_config"
                        THEN env ELSE NoEnv,
                steps |-> c.out.steps,
                raised |-> c.out.raised, value |-> c.out.value,
                n_pred |-> c.out.n_pred, n_label |-> c.out.n_label,
                ret |-> id, fresh |-> id \notin returned]

CallOf(metric, kwargs, env, c) ==
    CallEffect(metric, kwargs, env, c, ReturnedId(c, allocated))

CalculateMetrics(metric, kwargs, env) ==
    /\ er # NoResult
    /\ allocated < MaxCalls
    /\ CallOf(metric, kwargs, env,
              calculate_metrics(er, metric, kwargs, env, metrics_import_ok))
    /\ UNCHANGED <<eval_vars, er_init, er_origin, metrics_import_ok>>
    /\ UNCHANGED docx_vars

\* the model's environments for a SAS call on the current object
EnvsFor(metric) ==
    IF metric = "SAS" /\ Len(er.outputs) = Len(er.expected_outputs)
    THEN Envs(Len(er.outputs)) ELSE {NoEnv}

\* DocxToDocument.run has not been called
DocxIdle ==
    /\ run_pc = "idle"
    /\ sources = <<>>
    /\ meta = [none |-> TRUE]
    /\ meta_list = <<>>
    /\ documents = <<>>
    /\ position = 0
    /\ warnings = <<>>
    /\ converted = <<>>
    /\ run_raised = NoError

(***************************************************************************)
(* Spec: the eval entry point and direct construction.                     *)
(***************************************************************************)
Init ==
    /\ pc = "idle"
    /\ runnable = "Component"
    /\ inputs = <<>>
    /\ expected_outputs = <<>>
    /\ outputs = <<>>
    /\ run_log = <<>>
    /\ eval_raised = NoError
    /\ er = NoResult
    /\ er_init = NoResult
    /\ er_origin = "none"
    /\ metrics_import_ok \in BOOLEAN
    /\ allocated = 0
    /\ returned = {}
    /\ last = NoCall
    /\ DocxIdle

Next ==
    \/ \E r \in Runnables, ins \in SeqsUpTo(InputIds, MaxSamples) :
         \E exp \in SeqsUpTo(SampleOutputs(r), MaxSamples) : EvalCall(r, ins, exp)
    \/ \E ok \in BOOLEAN, output \in SampleOutputs(runnable) : EvalRun(ok, output)
    \/ EvalReturn
    \/ \E r \in Runnables, ins \in SeqsUpTo({"q1"}, MaxSamples) :
         \E outs \in SeqsUpTo(SampleOutputs(r), MaxSamples),
            exp \in SeqsUpTo(SampleOutputs(r), MaxSamples) : Construct(r, ins, outs, exp)

Spec == Init /\ [][Next]_vars

(***************************************************************************)
(* SpecMetrics: calculate_metrics calls on an EvaluationResult that a      *)
(* caller has constructed.                                                 *)
(***************************************************************************)
MetricsSamples(r) ==
    IF r = "Pipeline" THEN {[reader |-> [answers |-> T_a]]} ELSE {[answers |-> T_a]}

InitMetrics ==
    /\ pc = "idle"
    /\ runnable = "Component"
    /\ inputs = <<>>
    /\ expected_outputs = <<>>
    /\ outputs = <<>>
    /\ run_log = <<>>
    /\ eval_raised = NoError
    /\ \E r \in Runnables, ins \in SeqsUpTo({"q1"}, MaxSamples) :
         \E outs \in SeqsUpTo(MetricsSamples(r), MaxSamples),
            exp \in SeqsUpTo(MetricsSamples(r), MaxSamples) :
              er = __init__(r, ins, outs, exp)
    /\ er_init = er
    /\ er_origin = "direct"
    /\ metrics_import_ok \in BOOLEAN
    /\ allocated = 0
    /\ returned = {}
    /\ last = NoCall
    /\ DocxIdle

NextMetrics ==
    \E metric \in Metric \cup CustomMetrics, kwargs \in KwargsSet :
      \E env \in EnvsFor(metric) : CalculateMetrics(metric, kwargs, env)

SpecMetrics == InitMetrics /\ [][NextMetrics]_vars

(***************************************************************************)
(* SpecLex: one F1 or EM call on an EvaluationResult of a component whose  *)
(* outputs and expected outputs are texts: the lexical metrics as          *)
(* functions of the predictions, the labels and the normalisation options. *)
(***************************************************************************)
T_empty == <<>>
T_aa == <<"a", " ", "a">>
T_ba == <<"b", " ", " ", "a">>
T_A1 == <<"A", "1", ".">>
T_Paris == <<"P", "a", "r", "i", "s">>
T_7 == <<"7">>
T_seven == <<"s", "e", "v", "e", "n">>
T_the_cat_sat == <<"t", "h", "e", " ", "c", "a", "t", " ", "s", "a", "t">>
T_the_cat_sat_on_the_mat ==
    <<"t", "h", "e", " ", "c", "a", "t", " ", "s", "a", "t", " ",
      "o", "n", " ", "t", "h", "e", " ", "m", "a", "t">>

LexTexts == {T_empty, T_a, T_aa, T_ba, T_A1}

\* <<prediction, label>> of one sample: every pair of LexTexts and the pairs
\* of the spec's scenarios
LexPairs ==
    (LexTexts \X LexTexts)
    \cup {<<T_Paris, T_Paris>>, <<T_7, T_seven>>,
          <<T_the_cat_sat, T_the_cat_sat_on_the_mat>>}

LexKwargs ==
    { [output_key |-> "answers"],
      [output_key |-> "answers", ignore_case |-> TRUE],
      [output_key |-> "answers", ignore_punctuation |-> TRUE],
      [output_key |-> "answers", ignore_numbers |-> TRUE],
      [output_key |-> "answers", regexes_to_ignore |-> <<"a">>],
      [output_key |-> "answers", regexes_to_ignore |-> <<"a">>, ignore_case |-> TRUE],
      [output_key |-> "answers", regexes_to_ignore |-> <<"b", ".">>, ignore_case |-> TRUE,
       ignore_punctuation |-> TRUE, ignore_numbers |-> TRUE] }

InitLex ==
    /\ pc = "idle"
    /\ runnable = "Component"
    /\ inputs = <<>>
    /\ expected_outputs = <<>>
    /\ outputs = <<>>
    /\ run_log = <<>>
    /\ eval_raised = NoError
    /\ \E pairs \in SeqsUpTo(LexPairs, MaxLexSamples) :
         er = __init__("Component",
                       [i \in DOMAIN pairs |-> "q1"],
                       [i \in DOMAIN pairs |-> [answers |-> pairs[i][1]]],
                       [i \in DOMAIN pairs |-> [answers |-> pairs[i][2]]])
    /\ er_init = er
    /\ er_origin = "direct"
    /\ metrics_import_ok = TRUE
    /\ allocated = 0
    /\ returned = {}
    /\ last = NoCall
    /\ DocxIdle

NextLex ==
    \E metric \in {"F1", "EM"}, kwargs \in LexKwargs :
      last = NoCall /\ CalculateMetrics(metric, kwargs, NoEnv)

SpecLex == InitLex /\ [][NextLex]_vars

(***************************************************************************)
(* Properties of eval and of construction, under Spec.                     *)
(***************************************************************************)
EvalCalled == pc # "idle"

SameLengths(res) ==
    /\ Len(res.inputs) = Len(res.outputs)
    /\ Len(res.outputs) = Len(res.expected_outputs)

RunFailed == \E i \in DOMAIN run_log : ~ run_log[i].ok

\* C1: eval called with len(inputs) # len(expected_outputs) raises before
\* runnable.run is invoked even once: no run invocation is ever recorded and
\* no EvaluationResult exists.
C1_MismatchRaisesBeforeRun ==
    (EvalCalled /\ Len(inputs) # Len(expected_outputs)) =>
        /\ pc = "raised"
        /\ eval_raised = "ValueError"
        /\ run_log = <<>>
        /\ outputs = <<>>
        /\ er = NoResult

C1_Witness ==
    /\ pc = "raised"
    /\ Len(inputs) = 2
    /\ Len(expected_outputs) = 1
    /\ run_log = <<>>

\* C2: with equal lengths and no failing run, run is invoked once per input,
\* in input order, one invocation at a time (the k-th invocation recorded is
\* on inputs[k], and outputs holds its return value before the next one is
\* made); the EvaluationResult returned has outputs[i] = the value run
\* returned for inputs[i], and the three lists have the same length.
C2_RunOncePerInputInOrder ==
    (EvalCalled /\ Len(inputs) = Len(expected_outputs) /\ ~ RunFailed) =>
        /\ Len(run_log) = Len(outputs)
        /\ Len(run_log) <= Len(inputs)
        /\ \A i \in DOMAIN run_log :
             run_log[i].input = inputs[i] /\ outputs[i] = run_log[i].output
        /\ pc \in {"loop", "returned"}
        /\ pc = "returned" =>
             /\ Len(run_log) = Len(inputs)
             /\ er.inputs = inputs
             /\ er.expected_outputs = expected_outputs
             /\ \A i \in DOMAIN inputs : er.outputs[i] = run_log[i].output
             /\ SameLengths(er)

C2_Witness ==
    /\ pc = "returned"
    /\ Len(inputs) = 2
    /\ inputs[1] # inputs[2]
    /\ er.outputs[1] # er.outputs[2]
    /\ Len(run_log) = 2

\* C3: once run has failed on input k, the failure is what eval's caller
\* gets: that invocation is the last one ever made, no EvaluationResult is
\* returned and the outputs collected before k reach nobody.
C3_RunFailurePropagates ==
    RunFailed =>
        /\ pc = "raised"
        /\ eval_raised = "RunError"
        /\ ~ run_log[Len(run_log)].ok
        /\ \A i \in 1..(Len(run_log) - 1) : run_log[i].ok
        /\ er = NoResult
        /\ er_origin = "none"

C3_Witness ==
    /\ pc = "raised"
    /\ Len(inputs) = 3
    /\ Len(run_log) = 2
    /\ ~ run_log[2].ok
    /\ Len(outputs) = 1

\* C10 as stated: every EvaluationResult, from eval or constructed by a
\* caller, has len(inputs) = len(outputs) = len(expected_outputs).
C10_Original == er # NoResult => SameLengths(er)

\* C10 amended: an EvaluationResult that eval returns has three lists of the
\* same length, index i of each being the i-th test case (inputs[i], the
\* output run returned for it, the caller's i-th expected output).
C10_EvalResultSameLengths ==
    er_origin = "eval" =>
        /\ SameLengths(er)
        /\ er.inputs = inputs
        /\ er.expected_outputs = expected_outputs
        /\ \A i \in DOMAIN er.inputs :
             run_log[i].ok /\ run_log[i].input = er.inputs[i]
                           /\ run_log[i].output = er.outputs[i]

C10_Witness ==
    /\ er_origin = "eval"
    /\ Len(er.inputs) = 2
    /\ Len(er.outputs) = 2
    /\ Len(er.expected_outputs) = 2

(***************************************************************************)
(* Properties of calculate_metrics, under SpecMetrics.                     *)
(***************************************************************************)
Called == last # NoCall

\* the steps that normalise, load the external model or score
WorkSteps ==
    {"normalize_predictions", "normalize_labels", "score", "load_config",
     "load_model", "predict", "encode", "cos_sim"}

NoWorkDone == \A i \in DOMAIN last.steps : last.steps[i] \notin WorkSteps

\* the MetricsResult of EM, F1 and SAS for no samples
ZeroResult(metric) ==
    CASE metric = "EM" -> [exact_match |-> <<0, 1>>]
      [] metric = "F1" -> [f1 |-> <<0, 1>>]
      [] metric = "SAS" -> [sas |-> [raw |-> <<0, 1>>, expit |-> FALSE],
                            scores |-> <<[raw |-> <<0, 1>>, expit |-> FALSE]>>]

\* C6: when extraction yields zero predictions and zero labels, EM returns
\* exact_match = 0.0, F1 returns f1 = 0.0 and SAS returns sas = 0.0 with the
\* one-element list [0.0]; nothing is raised, and nothing was normalised or
\* loaded before the return.
C6_ZeroSamplesReturnZero ==
    (Called /\ last.metric \in {"EM", "F1", "SAS"}
            /\ last.n_pred = 0 /\ last.n_label = 0) =>
        /\ last.raised = NoError
        /\ last.ret # NoObject
        /\ last.value = ZeroResult(last.metric)
        /\ NoWorkDone

C6_Witness ==
    /\ Called
    /\ last.metric = "SAS"
    /\ Len(er.outputs) = 0
    /\ Len(er.expected_outputs) = 0
    /\ last.n_pred = 0
    /\ last.n_label = 0
    /\ last.raised = NoError
    /\ Len(last.value.scores) = 1

\* C7: when the extracted predictions and labels differ in length, EM, F1
\* and SAS raise the length-mismatch ValueError: no MetricsResult is built or
\* returned (so no score over a truncated list), and nothing was normalised,
\* loaded or scored before the raise.
C7_LengthMismatchRaises ==
    (Called /\ last.metric \in {"EM", "F1", "SAS"}
            /\ last.n_pred >= 0 /\ last.n_label >= 0
            /\ last.n_pred # last.n_label) =>
        /\ last.raised = "ValueError"
        /\ last.ret = NoObject
        /\ last.value = NoValue
        /\ NoWorkDone

C7_Witness ==
    /\ Called
    /\ last.metric = "SAS"
    /\ last.n_pred = 1
    /\ last.n_label = 2
    /\ last.raised = "ValueError"

StubNames ==
    [m \in {"RECALL", "MRR", "MAP"} |->
        CASE m = "RECALL" -> "recall"
          [] m = "MRR" -> "mean_reciprocal_rank"
          [] m = "MAP" -> "mean_average_precision"]

\* C8 as stated: for RECALL, MRR and MAP, calculate_metrics(metric,
\* **options) returns a MetricsResult mapping the metric's name to None and
\* does not raise, whatever keyword options the call carries.
C8_Original ==
    (Called /\ last.metric \in {"RECALL", "MRR", "MAP"}) =>
        /\ last.raised = NoError
        /\ DOMAIN last.value = {StubNames[last.metric]}
        /\ last.value[StubNames[last.metric]] = None

\* C8, what the code does: the stubs return None under the metric's name
\* exactly when the call carries no keyword option, and raise TypeError when
\* it carries any.
C8_StubsTakeNoOptions ==
    (Called /\ last.metric \in {"RECALL", "MRR", "MAP"}) =>
        IF DOMAIN last.kwargs = {}
        THEN /\ last.raised = NoError
             /\ DOMAIN last.value = {StubNames[last.metric]}
             /\ last.value[StubNames[last.metric]] = None
        ELSE last.raised = "TypeError" /\ last.ret = NoObject

\* C9 as stated: no calculate_metrics call, with a built-in metric or with
\* a caller-supplied callable, changes the EvaluationResult, and every call
\* that returns, returns an object no earlier call returned.
C9_Original ==
    /\ er = er_init
    /\ (Called /\ last.ret # NoObject) => last.fresh

\* C9 amended: a calculate_metrics call with a built-in metric kind leaves
\* inputs, outputs, expected_outputs and the runnable kind as they were, and
\* when it returns, the MetricsResult is an object no earlier call returned.
C9_BuiltinsLeaveResultAlone ==
    [][(last' # last /\ last'.metric \in Metric) =>
          /\ er' = er
          /\ last'.ret # NoObject => (last'.ret \notin returned /\ last'.fresh)]_vars

C9_Witness ==
    /\ Called
    /\ last.metric \in Metric
    /\ last.ret = 2
    /\ returned = {1, 2}
    /\ er = er_init
    /\ Len(er.outputs) = 2

(***************************************************************************)
(* Properties of the lexical metrics, under SpecLex.                       *)
(***************************************************************************)
\* the normalised prediction and label of sample i of the last call
NormPrediction(i) ==
    preprocess_one(er.outputs[i].answers,
                   Arg(last.kwargs, "regexes_to_ignore", NoRegexes),
                   Arg(last.kwargs, "ignore_case", FALSE),
                   Arg(last.kwargs, "ignore_punctuation", FALSE),
                   Arg(last.kwargs, "ignore_numbers", FALSE))

NormLabel(i) ==
    preprocess_one(er.expected_outputs[i].answers,
                   Arg(last.kwargs, "regexes_to_ignore", NoRegexes),
                   Arg(last.kwargs, "ignore_case", FALSE),
                   Arg(last.kwargs, "ignore_punctuation", FALSE),
                   Arg(last.kwargs, "ignore_numbers", FALSE))

\* toks without the first occurrence of t
RECURSIVE WithoutFirst(_, _)
WithoutFirst(toks, t) ==
    IF toks = <<>> THEN <<>>
    ELSE IF Head(toks) = t THEN Tail(toks)
    ELSE <<Head(toks)>> \o WithoutFirst(Tail(toks), t)

\* the size of the multiset intersection, by pairing each prediction token
\* with one label token not yet paired
RECURSIVE NumSame(_, _)
NumSame(pred_toks, label_toks) ==
    IF pred_toks = <<>> THEN 0
    ELSE IF Head(pred_toks) \in Range(label_toks)
    THEN 1 + NumSame(Tail(pred_toks), WithoutFirst(label_toks, Head(pred_toks)))
    ELSE NumSame(Tail(pred_toks), label_toks)

\* the claimed per-sample score; 2pr/(p+r) with p = s/|pred| and
\* r = s/|label| is 2s/(|pred| + |label|)
ClaimedF1OfSame(num_same, n_pred, n_label) ==
    IF n_pred = 0 /\ n_label = 0 THEN <<1, 1>>
    ELSE IF n_pred = 0 \/ n_label = 0 THEN <<0, 1>>
    ELSE IF num_same = 0 THEN <<0, 1>>
    ELSE Rat(2 * num_same, n_pred + n_label)

ClaimedF1(pred_toks, label_toks) ==
    ClaimedF1OfSame(NumSame(pred_toks, label_toks), Len(pred_toks), Len(label_toks))

\* C4: on a non-empty list of samples F1 returns the arithmetic mean of the
\* per-sample scores: 1 for two empty token lists, 0 for exactly one empty,
\* 0 for no common token, else 2pr/(p+r) over the multiset intersection.
C4_F1IsMeanOfTokenScores ==
    (Called /\ last.metric = "F1" /\ Len(er.outputs) >= 1) =>
        /\ last.raised = NoError
        /\ RMul(last.value.f1, RInt(Len(er.outputs)))
             = RSum([i \in DOMAIN er.outputs |->
                       ClaimedF1(split(NormPrediction(i)), split(NormLabel(i)))])

C4_Witness ==
    /\ Called
    /\ last.metric = "F1"
    /\ DOMAIN last.kwargs = {"output_key"}
    /\ er.outputs = <<[answers |-> T_the_cat_sat]>>
    /\ er.expected_outputs = <<[answers |-> T_the_cat_sat_on_the_mat]>>
    /\ last.value.f1 = <<2, 3>>

\* C5: EM lies in [0, 1] and, on a non-empty list, equals the number of
\* samples whose normalised prediction equals the normalised label, the
\* same options applied to both, over the number of samples.
C5_EMIsFractionOfMatches ==
    (Called /\ last.metric = "EM") =>
        /\ last.raised = NoError
        /\ RLeq(<<0, 1>>, last.value.exact_match)
        /\ RLeq(last.value.exact_match, <<1, 1>>)
        /\ Len(er.outputs) >= 1 =>
             last.value.exact_match
               = Rat(Cardinality({i \in DOMAIN er.outputs :
                                    NormPrediction(i) = NormLabel(i)}),
                     Len(er.outputs))

C5_Witness ==
    /\ Called
    /\ last.metric = "EM"
    /\ DOMAIN last.kwargs = {"output_key"}
    /\ er.outputs = <<[answers |-> T_Paris], [answers |-> T_7]>>
    /\ er.expected_outputs = <<[answers |-> T_Paris], [answers |-> T_seven]>>
    /\ last.value.exact_match = <<1, 2>>

(***************************************************************************)
(* DocxToDocument (haystack/components/converters/docx.py).                *)
(*  - A Python dict is a function on its set of keys.                      *)
(*  - A metadata value carries its type, so that 0, "" and None stay       *)
(*    apart: Str(s), IntValue(n), Date(d), NoneValue.                      *)
(*  - A .docx file is what python-docx makes of it: whether                *)
(*    docx.Document and the paragraph reads succeed, the paragraph texts,  *)
(*    the attributes of core_properties, and whether reading               *)
(*    core_properties succeeds.                                            *)
(***************************************************************************)
\* longest sources list
MaxSources == 3

Str(s) == [str |-> s]
IntValue(n) == [int |-> n]
Date(d) == [datetime |-> d]
NoneValue == [none |-> TRUE]

EmptyDict == [k \in {} |-> NoneValue]

\* d[k] = v
Put(d, k, v) == [x \in DOMAIN d \cup {k} |-> IF x = k THEN v ELSE d[x]]

\* {**a, **b}
Merge(a, b) == [k \in DOMAIN a \cup DOMAIN b |-> IF k \in DOMAIN b THEN b[k] ELSE a[k]]

props ==
    <<"author", "category", "comments", "content_status", "created", "identifier",
      "keywords", "language", "last_modified_by", "last_printed", "modified",
      "revision", "subject", "title", "version">>

\* the body of the loop of lines 128-132 for one prop
AddProp(core_properties, prop, docx_meta) ==
    IF /\ prop \in DOMAIN core_properties
       /\ core_properties[prop] # NoneValue
       /\ core_properties[prop] # Str("")
    THEN Put(docx_meta, "docx_" \o prop, core_properties[prop])
    ELSE docx_meta

\* the loop of lines 128-132 from props[i] on
RECURSIVE PropsFrom(_, _, _)
PropsFrom(core_properties, i, docx_meta) ==
    IF i > Len(props) THEN docx_meta
    ELSE PropsFrom(core_properties, i + 1, AddProp(core_properties, props[i], docx_meta))

_get_docx_metadata(document) == PropsFrom(document.core_properties, 1, EmptyDict)

\* sep.join(texts)
RECURSIVE join(_, _)
join(sep, texts) ==
    IF texts = <<>> THEN ""
    ELSE IF Len(texts) = 1 THEN texts[1]
    ELSE texts[1] \o sep \o join(sep, Tail(texts))

\* merged_metadata with the extracted properties last
merged_metadata_docx_last(bytestream_meta, docx_meta, metadata) ==
    Merge(Merge(bytestream_meta, metadata), docx_meta)

\* line 92
merged_metadata(bytestream_meta, docx_meta, metadata) ==
    Merge(Merge(bytestream_meta, docx_meta), metadata)

\* converters.utils.get_bytestream_from_source: a ByteStream is returned as
\* it is, a path is read into a ByteStream whose meta holds file_path, any
\* other source is refused
get_bytestream_from_source(source) ==
    IF source.type = "ByteStream"
    THEN [raised |-> NoError, data |-> source.data, meta |-> source.meta]
    ELSE IF source.type = "path"
    THEN IF source.readable
         THEN [raised |-> NoError, data |-> source.data,
               meta |-> [file_path |-> Str(source.path)]]
         ELSE [raised |-> "FileNotFoundError"]
    ELSE [raised |-> "ValueError"]

\* converters.utils.normalize_metadata: None is one empty dict per source, a
\* dict is repeated for every source, a list must be as long as sources
normalize_metadata(m, sources_count) ==
    IF m = NoneValue
    THEN [raised |-> NoError, meta_list |-> [i \in 1..sources_count |-> EmptyDict]]
    ELSE IF "dict" \in DOMAIN m
    THEN [raised |-> NoError, meta_list |-> [i \in 1..sources_count |-> m.dict]]
    ELSE IF Len(m.list) = sources_count
    THEN [raised |-> NoError, meta_list |-> m.list]
    ELSE [raised |-> "ValueError"]

\* lines 80-82: docx.Document on the bytes and the reads of the paragraphs
docx_Document(data) ==
    IF data.opens
    THEN [raised |-> NoError, document |-> data]
    ELSE [raised |-> "PackageNotFoundError"]

\* lines 91-94, the file opened: _get_docx_metadata is called outside the
\* two try statements, so a failing read of core_properties leaves run
ConvertFile(bytestream, file, metadata) ==
    IF file.raised # NoError THEN [outcome |-> "unparseable"]
    ELSE IF ~ file.document.properties_readable
    THEN [outcome |-> "raised", raised |-> "CorePropertiesError"]
    ELSE [outcome |-> "document",
          document |-> [content |-> join("\n", file.document.paragraphs),
                        meta |-> merged_metadata(bytestream.meta,
                                                 _get_docx_metadata(file.document),
                                                 metadata)]]

\* lines 79-89, the source read
ConvertStream(bytestream, metadata) ==
    IF bytestream.raised # NoError THEN [outcome |-> "unreadable"]
    ELSE ConvertFile(bytestream, docx_Document(bytestream.data), metadata)

\* lines 74-94: the body of the loop for one (source, metadata) pair
Convert(source, metadata) ==
    ConvertStream(get_bytestream_from_source(source), metadata)

\* zip(sources, meta_list) has the length of the shorter list
ZipLen == Min(Len(sources), Len(meta_list))

\* lines 70-71
RunCallWith(srcs, m, normalized) ==
    /\ sources' = srcs
    /\ meta' = m
    /\ documents' = <<>>
    /\ position' = 0
    /\ warnings' = <<>>
    /\ converted' = <<>>
    /\ IF normalized.raised # NoError
       THEN /\ run_pc' = "raised"
            /\ run_raised' = normalized.raised
            /\ meta_list' = <<>>
       ELSE /\ run_pc' = "loop"
            /\ run_raised' = NoError
            /\ meta_list' = normalized.meta_list
    /\ UNCHANGED <<eval_vars, er, er_init, er_origin, metrics_import_ok,
                   allocated, returned, last>>

RunCall(srcs, m) ==
    /\ run_pc = "idle"
    /\ RunCallWith(srcs, m, normalize_metadata(m, Len(srcs)))

\* the effect on run's locals of the loop body's result for pair number index
StepEffect(index, result) ==
    /\ position' = index
    /\ CASE result.outcome = "unreadable" ->
              /\ warnings' = Append(warnings, [message |-> "Could not read", source |-> index])
              /\ UNCHANGED <<documents, converted, run_pc, run_raised>>
         [] result.outcome = "unparseable" ->
              /\ warnings' = Append(warnings, [message |-> "Could not read and convert",
                                               source |-> index])
              /\ UNCHANGED <<documents, converted, run_pc, run_raised>>
         [] result.outcome = "raised" ->
              /\ run_pc' = "raised"
              /\ run_raised' = result.raised
              /\ UNCHANGED <<documents, converted, warnings>>
         [] result.outcome = "document" ->
              /\ documents' = Append(documents, result.document)
              /\ converted' = Append(converted, index)
              /\ UNCHANGED <<warnings, run_pc, run_raised>>

\* lines 73-94: one iteration of the loop
RunStep ==
    /\ run_pc = "loop"
    /\ position < ZipLen
    /\ StepEffect(position + 1, Convert(sources[position + 1], meta_list[position + 1]))
    /\ UNCHANGED <<sources, meta, meta_list>>
    /\ UNCHANGED <<eval_vars, er, er_init, er_origin, metrics_import_ok,
                   allocated, returned, last>>

\* line 96: the loop is over
RunReturn ==
    /\ run_pc = "loop"
    /\ position = ZipLen
    /\ run_pc' = "returned"
    /\ UNCHANGED <<sources, meta, meta_list, documents, position, warnings,
                   converted, run_raised>>
    /\ UNCHANGED <<eval_vars, er, er_init, er_origin, metrics_import_ok,
                   allocated, returned, last>>

(***************************************************************************)
(* SpecDocx: one DocxToDocument.run call.                                  *)
(***************************************************************************)
\* core properties as python-docx gives them: a text property that is not
\* set is "", a date that is not set is None, revision is an int
CP_blank ==
    [p \in Range(props) |->
        IF p \in {"created", "last_printed", "modified"} THEN NoneValue
        ELSE IF p = "revision" THEN IntValue(0)
        ELSE Str("")]

CP_sample ==
    [CP_blank EXCEPT !["author"] = Str("Microsoft Office User"),
                     !["created"] = Date("2024-06-09T21:17"),
                     !["last_modified_by"] = Str("Carlos"),
                     !["modified"] = Date("2024-06-09T21:27"),
                     !["revision"] = IntValue(2)]

\* an object with two of the attributes only
CP_partial == [author |-> Str(""), title |-> Str("Report")]

DocxFile(opens, paragraphs, core_properties, properties_readable) ==
    [opens |-> opens, paragraphs |-> paragraphs, core_properties |-> core_properties,
     properties_readable |-> properties_readable]

F_sample == DocxFile(TRUE, <<"History", "and standardization">>, CP_sample, TRUE)
F_partial == DocxFile(TRUE, <<>>, CP_partial, TRUE)
F_text == DocxFile(FALSE, <<>>, EmptyDict, TRUE)
F_bad_properties == DocxFile(TRUE, <<"Body">>, CP_blank, FALSE)
F_none == DocxFile(FALSE, <<>>, EmptyDict, TRUE)

PathSource(path, readable, data) ==
    [type |-> "path", path |-> path, readable |-> readable, data |-> data]

ByteStreamSource(data, stream_meta) ==
    [type |-> "ByteStream", data |-> data, meta |-> stream_meta]

StreamMeta ==
    [docx_author |-> Str("stream author"), docx_title |-> Str("stream title"),
     origin |-> Str("upload")]

Sources ==
    { PathSource("sample_docx_1.docx", TRUE, F_sample),
      PathSource("non_existing_file.docx", FALSE, F_none),
      PathSource("doc_1.txt", TRUE, F_text),
      PathSource("odd.docx", TRUE, F_bad_properties),
      ByteStreamSource(F_sample, StreamMeta),
      ByteStreamSource(F_partial, EmptyDict),
      [type |-> "int"] }

CallerMeta ==
    [docx_language |-> Str("it"), docx_author |-> Str("test_author"),
     origin |-> Str("caller")]

\* a meta list of k entries, each naming its own row
MetaRows(k) ==
    [list |-> [i \in 1..k |-> IF i = 2 THEN [row |-> IntValue(i), docx_title |-> Str("")]
                              ELSE [row |-> IntValue(i)]]]

Metas ==
    {NoneValue, [dict |-> CallerMeta]} \cup {MetaRows(k) : k \in 0..MaxSources}

InitDocx ==
    /\ pc = "idle"
    /\ runnable = "Component"
    /\ inputs = <<>>
    /\ expected_outputs = <<>>
    /\ outputs = <<>>
    /\ run_log = <<>>
    /\ eval_raised = NoError
    /\ er = NoResult
    /\ er_init = NoResult
    /\ er_origin = "none"
    /\ metrics_import_ok = TRUE
    /\ allocated = 0
    /\ returned = {}
    /\ last = NoCall
    /\ DocxIdle

NextDocx ==
    \/ \E srcs \in SeqsUpTo(Sources, MaxSources), m \in Metas : RunCall(srcs, m)
    \/ RunStep
    \/ RunReturn

SpecDocx == InitDocx /\ [][NextDocx]_vars

(***************************************************************************)
(* Properties of DocxToDocument.run, under SpecDocx.                       *)
(***************************************************************************)
ListedFields ==
    {"author", "category", "comments", "content_status", "created", "identifier",
     "keywords", "language", "last_modified_by", "last_printed", "modified",
     "revision", "subject", "title", "version"}

\* the listed fields that are present and neither None nor ""
PresentFields(core_properties) ==
    {f \in ListedFields : /\ f \in DOMAIN core_properties
                          /\ core_properties[f] # NoneValue
                          /\ core_properties[f] # Str("")}

ExtractedProperties(core_properties) ==
    [k \in {"docx_" \o f : f \in PresentFields(core_properties)} |->
        core_properties[CHOOSE f \in ListedFields : "docx_" \o f = k]]

\* the metadata a source carries: a byte stream's own meta, a path's file_path
SourceCarried(source) ==
    IF source.type = "ByteStream" THEN source.meta
    ELSE [file_path |-> Str(source.path)]

\* the caller's meta for source number i
CallerSupplied(i) ==
    IF meta = NoneValue THEN EmptyDict
    ELSE IF "dict" \in DOMAIN meta THEN meta.dict
    ELSE meta.list[i]

\* the key-wise merge of a, b and c in which the later dict wins
LaterWins(a, b, c) ==
    [k \in DOMAIN a \cup DOMAIN b \cup DOMAIN c |->
        IF k \in DOMAIN c THEN c[k]
        ELSE IF k \in DOMAIN b THEN b[k]
        ELSE a[k]]

\* C11: the meta of every Document that run has built is the key-wise merge
\* of the source-carried metadata, then the listed core properties that are
\* present and neither None nor "" under the key docx_<field>, then the
\* caller's meta for that source, a later one winning on a shared key.
C11_MetaIsOrderedMerge ==
    \A j \in DOMAIN documents :
        documents[j].meta
          = LaterWins(SourceCarried(sources[converted[j]]),
                      ExtractedProperties(sources[converted[j]].data.core_properties),
                      CallerSupplied(converted[j]))

\* a byte stream carrying docx_author, docx_title and origin, of a file with
\* an author and no title, converted with a caller meta that has docx_author
\* and origin
C11_Witness ==
    /\ run_pc = "returned"
    /\ meta = [dict |-> CallerMeta]
    /\ \E j \in DOMAIN documents :
         /\ sources[converted[j]] = ByteStreamSource(F_sample, StreamMeta)
         /\ documents[j].meta["docx_author"] = Str("test_author")
         /\ documents[j].meta["docx_title"] = Str("stream title")
         /\ documents[j].meta["docx_revision"] = IntValue(2)
         /\ documents[j].meta["origin"] = Str("caller")
         /\ "docx_category" \notin DOMAIN documents[j].meta
         /\ "docx_last_printed" \notin DOMAIN documents[j].meta

\* a source that can be read and that docx.Document opens
Parses(source) ==
    /\ \/ source.type = "ByteStream"
       \/ source.type = "path" /\ source.readable
    /\ source.data.opens

\* the indexes up to n of the sources that satisfy / do not satisfy Parses
RECURSIVE ParsedUpTo(_)
ParsedUpTo(n) ==
    IF n = 0 THEN <<>>
    ELSE IF Parses(sources[n]) THEN Append(ParsedUpTo(n - 1), n)
    ELSE ParsedUpTo(n - 1)

RECURSIVE SkippedUpTo(_)
SkippedUpTo(n) ==
    IF n = 0 THEN <<>>
    ELSE IF Parses(sources[n]) THEN SkippedUpTo(n - 1)
    ELSE Append(SkippedUpTo(n - 1), n)

MetaListFits == "list" \in DOMAIN meta => Len(meta.list) = Len(sources)

\* each Document carries the caller's entry of its own source
OwnMetaEntries ==
    \A j \in DOMAIN documents :
        \A k \in DOMAIN CallerSupplied(converted[j]) :
            /\ k \in DOMAIN documents[j].meta
            /\ documents[j].meta[k] = CallerSupplied(converted[j])[k]

\* C12 as stated: whatever sources are unreadable or unparseable, run
\* does not raise (a meta list of the right length given); when it returns,
\* every source has been taken, each bad one has one warning, and documents
\* holds one Document per parsed source, in source order, with the meta
\* entry of its own source.
C12_Original ==
    /\ (run_pc # "idle" /\ MetaListFits) => run_raised = NoError
    /\ run_pc = "returned" =>
         /\ position = Len(sources)
         /\ converted = ParsedUpTo(Len(sources))
         /\ [i \in DOMAIN warnings |-> warnings[i].source] = SkippedUpTo(Len(sources))
         /\ OwnMetaEntries

\* C12, what the code does: a source whose read or whose docx.Document /
\* paragraph reads fail is skipped with one warning and the loop goes on;
\* an exception of the core-properties reads of line 91 is not caught and
\* ends the call while the loop is at that source.
C12_ReadAndOpenFailuresSkipped ==
    /\ (run_pc # "idle" /\ MetaListFits) =>
         \/ run_raised = NoError
         \/ /\ run_raised = "CorePropertiesError"
            /\ run_pc = "raised"
            /\ Parses(sources[position])
            /\ ~ sources[position].data.properties_readable
    /\ run_pc \in {"loop", "returned"} =>
         /\ converted = ParsedUpTo(position)
         /\ [i \in DOMAIN warnings |-> warnings[i].source] = SkippedUpTo(position)
         /\ Len(documents) = Len(converted)
         /\ OwnMetaEntries
    /\ run_pc = "returned" => position = Len(sources)

(***************************************************************************)
(* SpecSas: one SAS call on an EvaluationResult with as many outputs as    *)
(* expected outputs, the external model predicting any of SasRawScores     *)
(* for each pair.                                                          *)
(***************************************************************************)
SasRawScores == {Rat(-1, 2), Rat(1, 2), RInt(1), RInt(2)}

SasEnvs(n) ==
    {EnvOf("none", a, p, <<>>) :
        a \in {<<CrossEncoder>>, <<BiEncoder, CrossEncoder>>},
        p \in [1..n -> SasRawScores]}
    \cup {EnvOf("none", <<BiEncoder>>, <<>>, CosMatrix(n, d)) : d \in CosScores}

InitSas ==
    /\ pc = "idle"
    /\ runnable = "Component"
    /\ inputs = <<>>
    /\ expected_outputs = <<>>
    /\ outputs = <<>>
    /\ run_log = <<>>
    /\ eval_raised = NoError
    /\ \E k \in 0..MaxSamples :
         er = __init__("Component",
                       [i \in 1..k |-> "q1"],
                       [i \in 1..k |-> [answers |-> T_a]],
                       [i \in 1..k |-> [answers |-> T_b]])
    /\ er_init = er
    /\ er_origin = "direct"
    /\ metrics_import_ok = TRUE
    /\ allocated = 0
    /\ returned = {}
    /\ last = NoCall
    /\ DocxIdle

NextSas ==
    \E kwargs \in {[output_key |-> "answers"],
                   [output_key |-> "answers", ignore_case |-> TRUE]} :
      \E env \in SasEnvs(Len(er.outputs)) :
        last = NoCall /\ CalculateMetrics("SAS", kwargs, env)

SpecSas == InitSas /\ [][NextSas]_vars

(***************************************************************************)
(* Properties of the SAS cross-encoder path, under SpecSas.                *)
(***************************************************************************)
\* the last call was a SAS call that scored at least one pair with a
\* cross-encoder
CrossEncoderScored ==
    /\ Called
    /\ last.metric = "SAS"
    /\ last.raised = NoError
    /\ last.n_pred >= 1
    /\ \E i \in DOMAIN last.env.architectures :
         last.env.architectures[i][2] = "ForSequenceClassification"

SomeRawExceedsOne ==
    \E i \in DOMAIN last.env.predict :
        last.env.predict[i][1] > last.env.predict[i][2]

\* C13: on the cross-encoder path the per-sample list has one score per
\* pair, in sample order; when some raw score exceeds 1.0 every score is the
\* sigmoid of its raw score, otherwise every score is its raw score (below
\* 0 included); the aggregate is the arithmetic mean of that list.
C13_CrossEncoderAllOrNothing ==
    CrossEncoderScored =>
        /\ Len(last.value.scores) = last.n_pred
        /\ \A i \in DOMAIN last.value.scores :
             /\ last.value.scores[i].raw = last.env.predict[i]
             /\ last.value.scores[i].expit = SomeRawExceedsOne
        /\ IF SomeRawExceedsOne
           THEN last.value.sas = [mean_of |-> last.value.scores]
           ELSE /\ last.value.sas.expit = FALSE
                /\ RMul(last.value.sas.raw, RInt(last.n_pred))
                     = RSum([i \in 1..last.n_pred |-> last.env.predict[i]])

\* three pairs scored -1/2, 2 and 1/2: all three are squashed
C13_Witness ==
    /\ CrossEncoderScored
    /\ last.env.predict = <<Rat(-1, 2), RInt(2), Rat(1, 2)>>
    /\ last.value.scores = <<[raw |-> Rat(-1, 2), expit |-> TRUE],
                             [raw |-> RInt(2), expit |-> TRUE],
                             [raw |-> Rat(1, 2), expit |-> TRUE]>>

\* three pairs scored -1/2, 1 and 1/2: none is squashed, the mean is 1/3
C13_WitnessUnchanged ==
    /\ CrossEncoderScored
    /\ last.env.predict = <<Rat(-1, 2), RInt(1), Rat(1, 2)>>
    /\ last.value.sas = [raw |-> <<1, 3>>, expit |-> FALSE]

====
